---- MODULE Spec2Model ----
(***************************************************************************)
(* Model of the scan scripts of api-nuggets:                               *)
(*   src/db_scripts/penny_losers_gainers.py  (breakout scans, retries)     *)
(*   src/db_scripts/opsell.py                (premium-selling daily scan)  *)
(*                                                                         *)
(* Numbers.  The scripts compute with Python floats / pandas columns.      *)
(* Here a number is an exact fraction [n |-> numerator, d |-> denominator] *)
(* with d > 0, and the pandas NaN is the fraction with d = 0.  Every       *)
(* comparison with NaN is FALSE, as in Python.  Floating-point rounding is *)
(* not modelled: comparisons are those of the source, on exact values.     *)
(***************************************************************************)
EXTENDS Integers, Sequences, FiniteSets, TLC

\* ------------------------------------------------------------------ bounds
\* Number of symbols of the universe a scan iterates over.
MaxSymbols == 2
\* Longest candidate list handed to the rank/truncate step in SpecRank.
MaxCand == 6

\* ------------------------------------------------- constants of the source
MAX_RETRIES == 6
INITIAL_BACKOFF == 1
BACKOFF_FACTOR == 2
TOP_N == 5
\* get_historical(symbol, limit=20, ...)
HIST_LIMIT == 20
\* score_stock: "len(df) < 10"
MIN_BARS == 10
\* score_stock: rolling(20).max(), score_stock_down: rolling(20).min()
EXTREME_WINDOW == 20

\* ---------------------------------------------------------------- numbers
Q(n, d) == [n |-> n, d |-> d]
NaN == Q(0, 0)
I(k) == Q(k, 1)
IsNaN(x) == x.d = 0

\* Python comparisons on floats: FALSE as soon as one side is NaN.
Lt(x, y) == x.d > 0 /\ y.d > 0 /\ x.n * y.d < y.n * x.d
Le(x, y) == x.d > 0 /\ y.d > 0 /\ x.n * y.d <= y.n * x.d
Gt(x, y) == Lt(y, x)
Ge(x, y) == Le(y, x)

AbsI(k) == IF k < 0 THEN -k ELSE k

RECURSIVE Gcd(_, _)
Gcd(a, b) == IF b = 0 THEN a ELSE Gcd(b, a % b)

\* A fraction in lowest terms with a positive denominator.
Norm(x) ==
    IF x.d = 0 THEN NaN
    ELSE LET s == IF x.d < 0 THEN -1 ELSE 1
             g == Gcd(AbsI(x.n), AbsI(x.d))
         IN  Q((s * x.n) \div g, (s * x.d) \div g)

Add(x, y) == IF x.d = 0 \/ y.d = 0 THEN NaN
             ELSE Norm(Q(x.n * y.d + y.n * x.d, x.d * y.d))
Sub(x, y) == Add(x, Q(-y.n, y.d))
Mul(x, y) == IF x.d = 0 \/ y.d = 0 THEN NaN
             ELSE Norm(Q(x.n * y.n, x.d * y.d))
\* x / y for a finite y # 0 (the callers never divide by zero here)
Div(x, y) == IF x.d = 0 \/ y.d = 0 \/ y.n = 0 THEN NaN
             ELSE Norm(Q(x.n * y.d, x.d * y.n))
AbsQ(x) == Q(AbsI(x.n), x.d)

\* ------------------------------------------------------- sequence helpers
RECURSIVE SumTo(_, _)
SumTo(s, n) == IF n = 0 THEN 0 ELSE s[n] + SumTo(s, n - 1)
SumSeq(s) == SumTo(s, Len(s))

Reverse(s) == [i \in 1..Len(s) |-> s[Len(s) + 1 - i]]

\* s[:k] of Python, for k >= 0
Prefix(s, k) == SubSeq(s, 1, IF k < Len(s) THEN k ELSE Len(s))

\* s[-k:] of Python / df.tail(k), for k >= 0
Last(s, k) == IF k >= Len(s) THEN s ELSE SubSeq(s, Len(s) - k + 1, Len(s))

\* s.iloc[-k], 1 <= k <= Len(s)
At(s, k) == s[Len(s) + 1 - k]

Column(rows, f) == [i \in 1..Len(rows) |-> rows[i][f]]

\* series.rolling(w).mean().iloc[-1]: NaN unless w values are there
RollingMeanLast(col, w) ==
    IF Len(col) < w THEN NaN ELSE Norm(Q(SumSeq(Last(col, w)), w))

MaxOf(S) == CHOOSE m \in S : \A x \in S : x <= m
MinOf(S) == CHOOSE m \in S : \A x \in S : m <= x
Range(s) == {s[i] : i \in 1..Len(s)}

\* series.rolling(w).max().iloc[-1] and .min().iloc[-1]
RollingMaxLast(col, w) ==
    IF Len(col) < w THEN NaN ELSE I(MaxOf(Range(Last(col, w))))
RollingMinLast(col, w) ==
    IF Len(col) < w THEN NaN ELSE I(MinOf(Range(Last(col, w))))

\* (close.pct_change() * 100).iloc[-k]: NaN at the first row
PctChangeAt(col, k) ==
    IF Len(col) < k + 1 THEN NaN
    ELSE Norm(Q(100 * (At(col, k) - At(col, k + 1)), At(col, k + 1)))


\* ------------------------------------------------------------------ state
VARIABLES
    scan,        \* the orchestrator that runs (or "request_with_retries" alone)
    test_date,   \* <<>> for None, <<d>> for the cut-off date of a backtest
    pc,          \* position of the orchestrator
    idx,         \* index in the universe of the symbol of this iteration
    fetched,     \* symbols whose series has been requested, in order
    paused,      \* symbols whose fetch was followed by the inter-request pause
    exhausted,   \* symbols whose request_with_retries returned None
    scored,      \* symbols for which the scoring function / filter chain returned
    attempt,     \* request_with_retries: attempt
    backoff,     \* request_with_retries: backoff
    gets,        \* request_with_retries: session.get calls issued by this call
    slept,       \* request_with_retries: sleep_time of the last time.sleep, 0 if none
    r,           \* request_with_retries: the last response, then the return value
    df,          \* the frame of the symbol of this iteration
    sc,          \* the score of the symbol of this iteration
    outcome,     \* what this iteration did with its symbol
    results,     \* pick_*: results
    signals_pass_all,           \* run_daily_scan
    signals_except_iv_strict,   \* run_daily_scan
    locals,      \* run_daily_scan: valid_dd, drawdown, ivp, ok, reason,
                 \* ok_pre_trade, reason_pre_trade as far as this iteration
                 \* assigned them
    output,      \* what the scan returns / reports after rank and truncate
    workbook,    \* data/grades_updates.xlsx: its worksheets in order, <<>> while
                 \* the file does not exist
    if_sheet_exists,   \* what the installed pandas does when to_excel in mode
                       \* "a" meets a sheet of the same name
    today,       \* the day of the run of a persisting script
    runs         \* runs of the persisting scripts started so far

vars == <<scan, test_date, pc, idx, fetched, paused, exhausted, scored, attempt,
          backoff, gets, slept, r, df, sc, outcome, results, signals_pass_all,
          signals_except_iv_strict, locals, output, workbook, if_sheet_exists,
          today, runs>>

rwrVars == <<attempt, backoff, gets, slept, r>>
bookVars == <<workbook, if_sheet_exists, today, runs>>
loopVars == <<idx, fetched, paused, exhausted, scored, df, sc, outcome, results,
              signals_pass_all, signals_except_iv_strict, locals, output>>

BreakoutScans == {"pick_stocks", "pick_sp500_stocks_up", "pick_sp500_stocks_down"}
Universe == 1..MaxSymbols

None == [tag |-> "None"]
NoFrame == [tag |-> "none"]
NoLocals == [tag |-> "locals"]

\* ------------------------------------------------- request_with_retries
\* What the server can answer.  Retry-After: absent, not an integer, or an
\* integer number of seconds.
Statuses == {200, 403, 404, 429, 500, 503, 599}
RetryAfterHeaders ==
    { [present |-> FALSE, integer |-> FALSE, value |-> 0],
      [present |-> TRUE,  integer |-> FALSE, value |-> 0],
      [present |-> TRUE,  integer |-> TRUE,  value |-> 7],
      [present |-> TRUE,  integer |-> TRUE,  value |-> 30] }
NoHeader == [present |-> FALSE, integer |-> FALSE, value |-> 0]
Response(status, h) == [tag |-> "response", status |-> status, retry_after |-> h]

allowed_statuses == {200}

\* lines 49-53: <<>> is None
ParseRetryAfter(h) ==
    IF h.present /\ h.integer THEN <<h.value>> ELSE <<>>

\* A wait that never looks at Retry-After: the variant C17 is checked against.
SleepTimeBackoffOnly(retry_after, b) == b

\* line 56
SleepTime(retry_after, b) ==
    IF retry_after # <<>> THEN retry_after[1] ELSE b

\* lines 27-29
RwrBegin ==
    /\ attempt' = 0
    /\ backoff' = INITIAL_BACKOFF
    /\ gets' = 0
    /\ slept' = 0
    /\ r' = None

\* A loop test that lets one more attempt through: the variant C3 is
\* checked against.
RwrLoopTestOneMore == attempt <= MAX_RETRIES

\* line 31
RwrLoopTest == attempt < MAX_RETRIES

\* lines 32-41: session.get raises requests.RequestException
RwrNetworkError ==
    /\ pc = "rwr"
    /\ RwrLoopTest
    /\ gets' = gets + 1
    /\ attempt' = attempt + 1
    /\ slept' = backoff
    /\ backoff' = backoff * BACKOFF_FACTOR
    /\ UNCHANGED r
    /\ pc' = "rwr"
    /\ UNCHANGED <<bookVars, scan, test_date>>
    /\ UNCHANGED loopVars

\* lines 32-33, 43-45: a response with an allowed status is returned
RwrSuccess ==
    /\ pc = "rwr"
    /\ RwrLoopTest
    /\ \E status \in Statuses :
          /\ status \in allowed_statuses
          /\ r' = Response(status, NoHeader)
    /\ gets' = gets + 1
    /\ pc' = "returned"
    /\ UNCHANGED <<attempt, backoff, slept>>
    /\ UNCHANGED <<bookVars, scan, test_date>>
    /\ UNCHANGED loopVars

\* lines 47-61: 429, Retry-After honoured when it is an integer
RwrRateLimited ==
    /\ pc = "rwr"
    /\ RwrLoopTest
    /\ \E h \in RetryAfterHeaders :
          /\ 429 \notin allowed_statuses
          /\ r' = Response(429, h)
          /\ slept' = SleepTime(ParseRetryAfter(h), backoff)
    /\ gets' = gets + 1
    /\ attempt' = attempt + 1
    /\ backoff' = backoff * BACKOFF_FACTOR
    /\ pc' = "rwr"
    /\ UNCHANGED <<bookVars, scan, test_date>>
    /\ UNCHANGED loopVars

\* lines 63-70: 5xx
RwrServerError ==
    /\ pc = "rwr"
    /\ RwrLoopTest
    /\ \E status \in Statuses :
          /\ status \notin allowed_statuses
          /\ status # 429
          /\ 500 <= status /\ status < 600
          /\ r' = Response(status, NoHeader)
    /\ gets' = gets + 1
    /\ slept' = backoff
    /\ attempt' = attempt + 1
    /\ backoff' = backoff * BACKOFF_FACTOR
    /\ pc' = "rwr"
    /\ UNCHANGED <<bookVars, scan, test_date>>
    /\ UNCHANGED loopVars

\* lines 72-74: any other status is returned as it is
RwrNonRetriable ==
    /\ pc = "rwr"
    /\ RwrLoopTest
    /\ \E status \in Statuses :
          /\ status \notin allowed_statuses
          /\ status # 429
          /\ ~(500 <= status /\ status < 600)
          /\ r' = Response(status, NoHeader)
    /\ gets' = gets + 1
    /\ pc' = "returned"
    /\ UNCHANGED <<attempt, backoff, slept>>
    /\ UNCHANGED <<bookVars, scan, test_date>>
    /\ UNCHANGED loopVars

\* lines 31, 76-77: the budget is used up
RwrExhausted ==
    /\ pc = "rwr"
    /\ ~RwrLoopTest
    /\ r' = None
    /\ pc' = "returned"
    /\ UNCHANGED <<attempt, backoff, gets, slept>>
    /\ UNCHANGED <<bookVars, scan, test_date>>
    /\ UNCHANGED loopVars

request_with_retries ==
    \/ RwrNetworkError
    \/ RwrSuccess
    \/ RwrRateLimited
    \/ RwrServerError
    \/ RwrNonRetriable
    \/ RwrExhausted


\* ------------------------------------------------------- breakout scans
\* A JSON body of the historical-price endpoint.  rows are newest first, as
\* the endpoint delivers them; lacks are the fields no record carries.
Bar(date, close, volume) == [date |-> date, close |-> close, volume |-> volume]
Body(decodable, shape, rows, lacks) ==
    [decodable |-> decodable, shape |-> shape, rows |-> rows, lacks |-> lacks]

Frame(rows, cols) == [tag |-> "df", rows |-> rows, cols |-> cols]
Raise(exc) == [tag |-> "raise", exc |-> exc]
AllColumns == {"date", "close", "volume"}

\* get_historical after its request_with_retries call (lines 131-162).
\* resp is the value request_with_retries returned, td is test_date.
get_historical(resp, body, td) ==
    IF resp = None THEN None                                   \* 131-133
    ELSE IF resp.status # 200 THEN None                        \* 134-136
    ELSE IF ~body.decodable THEN None                          \* 137-141
    ELSE IF body.shape \notin {"list", "dict_historical"} THEN None  \* 143-147
    ELSE IF body.rows = <<>> THEN None                         \* 148-149
    ELSE LET data == Prefix(body.rows, HIST_LIMIT)             \* 151
             cols == AllColumns \ body.lacks
         IN  IF "date" \notin cols THEN Raise("KeyError")      \* 155
             ELSE LET rev == Reverse(data)                     \* 156
                      cut == IF td = <<>> THEN rev             \* 158-160
                             ELSE SelectSeq(rev, LAMBDA b : b.date <= td[1])
                  IN  Frame(cut, cols)

Returned(score, breakdown) ==
    [tag |-> "ret", score |-> score, breakdown |-> breakdown]

B2N(b) == IF b THEN 1 ELSE 0
Pick(b, text) == IF b THEN <<text>> ELSE <<>>

\* The five sub-signals of score_stock on the rows of a frame (lines 176-204).
UpAboveMAs(rows) ==
    LET close == Column(rows, "close")
    IN  /\ Gt(I(At(close, 1)), RollingMeanLast(close, 5))
        /\ Gt(I(At(close, 1)), RollingMeanLast(close, 10))
UpSurge(rows) == Gt(PctChangeAt(Column(rows, "close"), 1), I(5))
UpPrevSurge(rows) == Gt(PctChangeAt(Column(rows, "close"), 2), I(3))
UpNearHigh(rows) ==
    LET close == Column(rows, "close")
    IN  Ge(I(At(close, 1)), Mul(Q(95, 100), RollingMaxLast(close, EXTREME_WINDOW)))
VolumeSurge(rows) ==
    LET volume == Column(rows, "volume")
    IN  Gt(I(At(volume, 1)), Mul(Q(3, 2), RollingMeanLast(volume, 5)))

\* score_stock (lines 165-211)
score_stock(frame) ==
    IF frame = None THEN Returned(0, <<>>)                      \* 167-168
    ELSE IF Len(frame.rows) < MIN_BARS THEN Returned(0, <<>>)
    ELSE IF "close" \notin frame.cols THEN Raise("KeyError")    \* 170
    ELSE LET s1 == UpAboveMAs(frame.rows)
             s2 == UpSurge(frame.rows)
             s3 == UpPrevSurge(frame.rows)
             s4 == UpNearHigh(frame.rows)
             s5 == "volume" \in frame.cols /\ VolumeSurge(frame.rows)   \* 199-204
             score == B2N(s1) + B2N(s2) + B2N(s3) + B2N(s4) + B2N(s5)
             breakdown == Pick(s1, "Price above MA5 & MA10")
                          \o Pick(s2, "Recent price surge >5%")
                          \o Pick(s3, "Previous day surge >3%")
                          \o Pick(s4, "Near 20-day high breakout")
                          \o Pick(s5, "Volume surge >1.5 * 5-day avg")
         IN  IF "volume" \notin frame.cols THEN Raise("KeyError")       \* 209
             ELSE Returned(score, breakdown)

\* The five sub-signals of score_stock_down (lines 251-279).
DownBelowMAs(rows) ==
    LET close == Column(rows, "close")
    IN  /\ Lt(I(At(close, 1)), RollingMeanLast(close, 5))
        /\ Lt(I(At(close, 1)), RollingMeanLast(close, 10))
DownDrop(rows) == Lt(PctChangeAt(Column(rows, "close"), 1), I(-5))
DownPrevDrop(rows) == Lt(PctChangeAt(Column(rows, "close"), 2), I(-3))
DownNearLow(rows) ==
    LET close == Column(rows, "close")
    IN  Le(I(At(close, 1)), Mul(Q(105, 100), RollingMinLast(close, EXTREME_WINDOW)))

\* score_stock_down (lines 240-286)
score_stock_down(frame) ==
    IF frame = None THEN Returned(0, <<>>)                      \* 242-243
    ELSE IF Len(frame.rows) < MIN_BARS THEN Returned(0, <<>>)
    ELSE IF "close" \notin frame.cols THEN Raise("KeyError")    \* 245
    ELSE LET s1 == DownBelowMAs(frame.rows)
             s2 == DownDrop(frame.rows)
             s3 == DownPrevDrop(frame.rows)
             s4 == DownNearLow(frame.rows)
             s5 == "volume" \in frame.cols /\ VolumeSurge(frame.rows)   \* 274-279
             score == B2N(s1) + B2N(s2) + B2N(s3) + B2N(s4) + B2N(s5)
             breakdown == Pick(s1, "Price below MA5 & MA10")
                          \o Pick(s2, "Recent price drop >5%")
                          \o Pick(s3, "Previous day drop >3%")
                          \o Pick(s4, "Near 20-day low breakout")
                          \o Pick(s5, "Volume surge >1.5 * 5-day avg")
         IN  IF "volume" \notin frame.cols THEN Raise("KeyError")       \* 284
             ELSE Returned(score, breakdown)

\* the scoring function each breakout scan calls (lines 222, 297, 317)
Scorer(which, frame) ==
    IF which = "pick_sp500_stocks_down" THEN score_stock_down(frame)
    ELSE score_stock(frame)

\* A threshold one lower: the variant C6 is checked against.
RetainedFromOne(score) == score >= 1

\* "if sc > 1" (lines 223, 298, 318)
Retained(score) == score > 1

Candidate(sym, score) == [symbol |-> sym, score |-> score]


\* results.sort(key=lambda x: x['score'], reverse=True) and
\* sorted(..., key=..., reverse=True): Python's sort is stable, and with
\* reverse=True equal keys keep their original order.  Insertion of each
\* element behind every element whose score is not smaller.
\* A score is an integer in the breakout scans (whole) and a fraction in
\* run_daily_scan.
ScoreOf(x, whole) == IF whole THEN I(x.score) ELSE x.score

\* An insertion that goes before equal scores, as an unstable sort may: the
\* variant C7 is checked against.
RECURSIVE InsertBeforeEqual(_, _, _)
InsertBeforeEqual(sorted, x, whole) ==
    IF sorted = <<>> THEN <<x>>
    ELSE IF Gt(ScoreOf(Head(sorted), whole), ScoreOf(x, whole))
         THEN <<Head(sorted)>> \o InsertBeforeEqual(Tail(sorted), x, whole)
         ELSE <<x>> \o sorted

RECURSIVE InsertDesc(_, _, _)
InsertDesc(sorted, x, whole) ==
    IF sorted = <<>> THEN <<x>>
    ELSE IF Ge(ScoreOf(Head(sorted), whole), ScoreOf(x, whole))
         THEN <<Head(sorted)>> \o InsertDesc(Tail(sorted), x, whole)
         ELSE <<x>> \o sorted

RECURSIVE SortFrom(_, _, _)
SortFrom(acc, rest, whole) ==
    IF rest = <<>> THEN acc
    ELSE SortFrom(InsertDesc(acc, Head(rest), whole), Tail(rest), whole)

SortByScoreDesc(s, whole) == SortFrom(<<>>, s, whole)

\* pick_stocks lines 232-237, pick_sp500_stocks_* lines 306-307, 326-327
SortBreakout(res) == SortByScoreDesc(res, TRUE)
RankBreakout(res) == Prefix(SortBreakout(res), TOP_N)

\* ------------------------------------------------ breakout scans: inputs
FullLengths == {10, 20}
PrevCloses == {96, 100, 104}
LastCloses == {90, 95, 100, 105, 110}
OldestCloses == {50, 100, 200}
LastVolumes == {100, 200}
TestDates == {<<>>, <<19>>}

\* P daily bars, newest first, dated P, P-1, .., 1: closes and volumes flat
\* at 100 but for the last two closes, the oldest bar a slice of HIST_LIMIT
\* keeps and the last volume.
BreakoutRows(P, prev, last, oldest, vlast) ==
    LET BaseClose == 100
        BaseVolume == 100
        firstKept == IF P > HIST_LIMIT THEN P - HIST_LIMIT + 1 ELSE 1
        CloseOn(d) == IF d = P THEN last
                      ELSE IF d = P - 1 THEN prev
                      ELSE IF d = firstKept THEN oldest
                      ELSE BaseClose
        VolumeOn(d) == IF d = P THEN vlast ELSE BaseVolume
    IN  [i \in 1..P |-> Bar(P + 1 - i, CloseOn(P + 1 - i), VolumeOn(P + 1 - i))]

SampleRows == BreakoutRows(20, 104, 110, 100, 200)
ShortRows == BreakoutRows(9, 104, 110, 100, 200)
LongRows == BreakoutRows(21, 104, 110, 200, 200)

WellFormedBodies ==
    { Body(TRUE, "list", BreakoutRows(P, prev, last, oldest, vlast), {}) :
        P \in FullLengths, prev \in PrevCloses, last \in LastCloses,
        oldest \in OldestCloses, vlast \in LastVolumes }

OtherBodies ==
    { Body(FALSE, "list", <<>>, {}),
      Body(TRUE, "dict_other", <<>>, {}),
      Body(TRUE, "list", <<>>, {}),
      Body(TRUE, "list", ShortRows, {}),
      Body(TRUE, "list", LongRows, {}),
      Body(TRUE, "dict_historical", SampleRows, {}),
      Body(TRUE, "list", SampleRows, {"date"}),
      Body(TRUE, "list", SampleRows, {"close"}),
      Body(TRUE, "list", SampleRows, {"volume"}),
      Body(TRUE, "list", ShortRows, {"volume"}) }

Bodies == WellFormedBodies \cup OtherBodies

\* The body is read only from a response with status 200.
BodiesFor(resp) ==
    IF resp # None /\ resp.status = 200 THEN Bodies
    ELSE {Body(FALSE, "list", <<>>, {})}

\* --------------------------------------------- breakout scans: the loop
\* for sym in symbols: df = get_historical(sym, ...) enters
\* request_with_retries (lines 218-219, 293-294, 313-314, 130)
Fetch ==
    /\ pc = "loop"
    /\ scan \in BreakoutScans
    /\ idx <= MaxSymbols
    /\ RwrBegin
    /\ fetched' = Append(fetched, idx)
    /\ df' = NoFrame
    /\ sc' = 0
    /\ outcome' = "fetching"
    /\ pc' = "rwr"
    /\ UNCHANGED <<bookVars, scan, test_date, idx, paused, exhausted, scored, results,
                   signals_pass_all, signals_except_iv_strict, locals, output>>

\* request_with_retries returns to get_historical: its locals are gone,
\* its return value is get_historical's r (line 130).
ReturnToCaller ==
    /\ pc = "returned"
    /\ scan \in BreakoutScans
    /\ attempt' = 0
    /\ backoff' = INITIAL_BACKOFF
    /\ gets' = 0
    /\ slept' = 0
    /\ pc' = "parse"
    /\ UNCHANGED <<bookVars, scan, test_date, r>>
    /\ UNCHANGED loopVars

\* The rest of the iteration: get_historical from line 131, the pause, the
\* scoring call and the append (lines 219-230, 294-305, 314-325).
Evaluate ==
    /\ pc = "parse"
    /\ scan \in BreakoutScans
    /\ \E body \in BodiesFor(r) :
       \E frame \in {get_historical(r, body, test_date)} :
       \E res \in {IF frame.tag = "raise" THEN frame ELSE Scorer(scan, frame)} :
         /\ exhausted' = IF r = None THEN exhausted \cup {idx} ELSE exhausted
         /\ IF frame.tag = "raise"
            THEN /\ pc' = "raised"
                 /\ outcome' = "raised"
                 /\ df' = NoFrame
                 /\ UNCHANGED <<idx, paused, scored, sc, results>>
            ELSE /\ df' = frame
                 /\ paused' = paused \cup {idx}      \* time.sleep(PER_REQUEST_PAUSE)
                 /\ IF res.tag = "raise"
                    THEN /\ pc' = "raised"
                         /\ outcome' = "raised"
                         /\ UNCHANGED <<idx, scored, sc, results>>
                    ELSE /\ sc' = res.score
                         /\ scored' = scored \cup {idx}
                         /\ results' = IF Retained(res.score)
                                       THEN Append(results, Candidate(idx, res.score))
                                       ELSE results
                         /\ outcome' = IF Retained(res.score) THEN "retained"
                                       ELSE "not retained"
                         /\ idx' = idx + 1
                         /\ pc' = "loop"
    /\ r' = None
    /\ UNCHANGED <<bookVars, scan, test_date, fetched, signals_pass_all,
                   signals_except_iv_strict, locals, output>>
    /\ UNCHANGED <<attempt, backoff, gets, slept>>

\* after the loop: sort and truncate (lines 232-237, 306-307, 326-327)
RankAndReturn ==
    /\ pc = "loop"
    /\ scan \in BreakoutScans
    /\ idx > MaxSymbols
    /\ results' = SortBreakout(results)
    /\ output' = RankBreakout(results)
    /\ pc' = "done"
    /\ UNCHANGED <<bookVars, scan, test_date, idx, fetched, paused, exhausted, scored, df, sc,
                   outcome, signals_pass_all, signals_except_iv_strict, locals>>
    /\ UNCHANGED rwrVars

\* ------------------------------------------------ run_daily_scan (opsell.py)
\* SCAN_CONFIG
min_iv_percentile == 5
iv_filter_strict == 50
drawdown_min == -9
drawdown_max == -3
dma_window == 50
rsi_min == 25
max_5d_drop == -7
max_10d_drop_for_regime == -7
hv_trend_threshold == 0
top_n == 3
min_history == 260
\* get_price_data(symbol, limit=300)
PRICE_LIMIT == 300
\* calculate_hv(close, window=20), calculate_rsi(close, period=14)
HV_WINDOW == 20
RSI_PERIOD == 14
\* calculate_hv_percentile: tail(252), "len(hv) < 100"
HV_TAIL == 252
HV_MIN_POINTS == 100

\* A bar of the daily endpoint.  numpy's log and standard deviation have no
\* integer counterpart: each bar carries hv, the annualised volatility of
\* the 20 log returns that end at it, as an input of the model.  A negative
\* hv stands for NaN: the window holds a close that is not positive, whose
\* log return is infinite or undefined.
DailyBar(date, close, hv) == [date |-> date, close |-> close, hv |-> hv]

\* What requests.get(url) gives get_price_data: an exception or a response.
DailyResponse(kind, status, body) ==
    [kind |-> kind, status |-> status, body |-> body]

\* get_price_data (lines 64-85).  The endpoint lists the newest bar first, so
\* sort_values("date") is the reversal of its rows.
get_price_data(resp) ==
    IF resp.kind = "exception" THEN Raise("RequestException")          \* 71
    ELSE IF resp.status # 200 THEN None                                \* 73-75
    ELSE IF ~resp.body.decodable THEN Raise("JSONDecodeError")         \* 77
    ELSE IF resp.body.shape = "list" THEN Raise("AttributeError")      \* 77
    ELSE IF resp.body.shape # "dict_historical" THEN None              \* 77-80
    ELSE IF resp.body.rows = <<>> THEN None                            \* 78-80
    ELSE IF "date" \in resp.body.lacks THEN Raise("KeyError")          \* 83
    ELSE Frame(Last(Reverse(resp.body.rows), PRICE_LIMIT),             \* 84-85
               {"date", "close"} \ resp.body.lacks)

\* calculate_hv (lines 91-98): NaN until window returns exist, that is for
\* the first window rows of the frame it is computed on.
calculate_hv(rows) ==
    [i \in 1..Len(rows) |->
        IF i <= HV_WINDOW \/ rows[i].hv < 0 THEN NaN ELSE I(rows[i].hv)]

DropNa(col) == SelectSeq(col, LAMBDA x : ~IsNaN(x))

\* mean() of a pandas series skips NaN; NaN when nothing is left
MeanSkipNa(col) ==
    LET vals == DropNa(col)
    IN  IF vals = <<>> THEN NaN
        ELSE Norm(Q(SumSeq([i \in 1..Len(vals) |-> vals[i].n]), Len(vals)))

\* calculate_hv_percentile (lines 115-127); <<>> is None
calculate_hv_percentile(rows) ==
    LET hv == Last(DropNa(calculate_hv(rows)), HV_TAIL)
    IN  IF Len(hv) < HV_MIN_POINTS THEN <<>>
        ELSE LET current == At(hv, 1)
                 below == Cardinality({i \in 1..Len(hv) : Lt(hv[i], current)})
             IN  <<Norm(Q(100 * below, Len(hv)))>>

\* calculate_rsi(close).iloc[-1] (lines 100-113).  The averages are float
\* columns: a zero avg_loss makes rs infinite (RSI 100) and 0/0 makes it NaN.
calculate_rsi(close) ==
    IF Len(close) < RSI_PERIOD + 1 THEN NaN
    ELSE LET delta == [k \in 1..RSI_PERIOD |-> At(close, k) - At(close, k + 1)]
             gain == SumSeq([k \in 1..RSI_PERIOD |->
                               IF delta[k] > 0 THEN delta[k] ELSE 0])
             loss == SumSeq([k \in 1..RSI_PERIOD |->
                               IF delta[k] < 0 THEN -delta[k] ELSE 0])
             avg_gain == Norm(Q(gain, RSI_PERIOD))
             avg_loss == Norm(Q(loss, RSI_PERIOD))
         IN  IF loss = 0
             THEN IF gain = 0 THEN NaN ELSE I(100)
             ELSE Sub(I(100), Div(I(100), Add(I(1), Div(avg_gain, avg_loss))))

\* (close.iloc[-1] / close.iloc[-(k+1)] - 1) * 100
ReturnOver(close, k) ==
    Norm(Q(100 * (At(close, 1) - At(close, k + 1)), At(close, k + 1)))

\* A decline that lets the last two closes be equal: the variant C18 is
\* checked against.
check_three_day_decline_lax(rows) ==
    LET closes == Column(rows, "close")
    IN  At(closes, 1) <= At(closes, 2) /\ At(closes, 2) < At(closes, 3)

\* check_three_day_decline (lines 133-141)
check_three_day_decline(rows) ==
    LET closes == Column(rows, "close")
    IN  At(closes, 1) < At(closes, 2) /\ At(closes, 2) < At(closes, 3)

\* A band without its boundaries: the variant C8 is checked against.
check_drawdown_open(rows) ==
    LET dd == ReturnOver(Column(rows, "close"), 3)
    IN  [valid |-> Lt(I(drawdown_min), dd) /\ Lt(dd, I(drawdown_max)),
         dd |-> dd]

\* check_drawdown (lines 143-154)
check_drawdown(rows) ==
    LET dd == ReturnOver(Column(rows, "close"), 3)
    IN  [valid |-> Le(I(drawdown_min), dd) /\ Le(dd, I(drawdown_max)),
         dd |-> dd]

\* hv_trend of regime_filter (line 171)
HvTrend(rows) ==
    LET hv == calculate_hv(rows)
    IN  Sub(MeanSkipNa(Last(hv, 5)),
            MeanSkipNa(SubSeq(hv, Len(hv) - 14, Len(hv) - 5)))

\* A rejection that needs no strictly rising HV: the variant C10 is checked
\* against.
regime_filter_flat_hv(rows) ==
    LET ret_10d == ReturnOver(Column(rows, "close"), 10)
        hv_trend == HvTrend(rows)
    IN  IF /\ Lt(ret_10d, I(max_10d_drop_for_regime))
           /\ Ge(hv_trend, I(hv_trend_threshold))
        THEN [ok |-> FALSE, reason |-> "Accelerating selloff"]
        ELSE [ok |-> TRUE, reason |-> "PASS"]

\* regime_filter (lines 160-178)
regime_filter(rows) ==
    LET ret_10d == ReturnOver(Column(rows, "close"), 10)
        hv_trend == HvTrend(rows)
    IN  IF /\ Lt(ret_10d, I(max_10d_drop_for_regime))
           /\ Gt(hv_trend, I(hv_trend_threshold))
        THEN [ok |-> FALSE, reason |-> "Accelerating selloff"]
        ELSE [ok |-> TRUE, reason |-> "PASS"]

\* A strict IV threshold that also turns away the threshold itself: the
\* variant C19 is checked against.
pre_trade_filter_iv_at_most(rows, iv_percentile) ==
    LET close == Column(rows, "close")
        dma == RollingMeanLast(close, dma_window)
        rsi == calculate_rsi(close)
        ret_5d == ReturnOver(close, 5)
    IN  IF Lt(I(At(close, 1)), dma)
        THEN [ok |-> FALSE, reason |-> "Below DMA"]
        ELSE IF Lt(rsi, I(rsi_min))
        THEN [ok |-> FALSE, reason |-> "RSI too low"]
        ELSE IF Lt(ret_5d, I(max_5d_drop))
        THEN [ok |-> FALSE, reason |-> "5d drop too large"]
        ELSE IF Le(iv_percentile, I(iv_filter_strict))
        THEN [ok |-> FALSE, reason |-> "IV too low"]
        ELSE [ok |-> TRUE, reason |-> "PASS"]

\* A filter that looks at the strict IV threshold first: the variant C11 is
\* checked against.
pre_trade_filter_iv_first(rows, iv_percentile) ==
    LET close == Column(rows, "close")
        dma == RollingMeanLast(close, dma_window)
        rsi == calculate_rsi(close)
        ret_5d == ReturnOver(close, 5)
    IN  IF Lt(iv_percentile, I(iv_filter_strict))
        THEN [ok |-> FALSE, reason |-> "IV too low"]
        ELSE IF Lt(I(At(close, 1)), dma)
        THEN [ok |-> FALSE, reason |-> "Below DMA"]
        ELSE IF Lt(rsi, I(rsi_min))
        THEN [ok |-> FALSE, reason |-> "RSI too low"]
        ELSE IF Lt(ret_5d, I(max_5d_drop))
        THEN [ok |-> FALSE, reason |-> "5d drop too large"]
        ELSE [ok |-> TRUE, reason |-> "PASS"]

\* pre_trade_filter (lines 184-209); the reasons without their numbers
pre_trade_filter(rows, iv_percentile) ==
    LET close == Column(rows, "close")
        dma == RollingMeanLast(close, dma_window)
        rsi == calculate_rsi(close)
        ret_5d == ReturnOver(close, 5)
    IN  IF Lt(I(At(close, 1)), dma)
        THEN [ok |-> FALSE, reason |-> "Below DMA"]
        ELSE IF Lt(rsi, I(rsi_min))
        THEN [ok |-> FALSE, reason |-> "RSI too low"]
        ELSE IF Lt(ret_5d, I(max_5d_drop))
        THEN [ok |-> FALSE, reason |-> "5d drop too large"]
        ELSE IF Lt(iv_percentile, I(iv_filter_strict))
        THEN [ok |-> FALSE, reason |-> "IV too low"]
        ELSE [ok |-> TRUE, reason |-> "PASS"]

\* round(x, k): to k decimals, ties to the even neighbour
Pow10(k) == IF k = 0 THEN 1 ELSE IF k = 1 THEN 10 ELSE 100
Round(x, k) ==
    LET num == x.n * Pow10(k)
        f == num \div x.d
        rem2 == 2 * (num - f * x.d)
        q == IF rem2 < x.d THEN f
             ELSE IF rem2 > x.d THEN f + 1
             ELSE IF f % 2 = 0 THEN f ELSE f + 1
    IN  Norm(Q(q, Pow10(k)))

\* A score computed from the rounded values a record stores: the variant C13
\* is checked against.
score_signal_of_stored(drawdown, ivp) ==
    Round(Add(AbsQ(Round(drawdown, 2)), Div(Round(ivp, 1), I(10))), 2)

\* score_signal (lines 215-220)
score_signal(drawdown, ivp) == Round(Add(AbsQ(drawdown), Div(ivp, I(10))), 2)

Signal(sym, drawdown, ivp) ==
    [symbol |-> sym, drawdown_pct |-> Round(drawdown, 2),
     iv_percentile |-> Round(ivp, 1), score |-> score_signal(drawdown, ivp)]

\* the record of lines 257-263 and 269-274, without the reason
DailySignal(sym, rows) ==
    Signal(sym, check_drawdown(rows).dd, calculate_hv_percentile(rows)[1])

\* A floor that rejects the minimum itself: the variant C9 is checked against.
BelowOrAtIvFloor(ivp) == ivp = <<>> \/ Le(ivp[1], I(min_iv_percentile))

\* "ivp is None or ivp < SCAN_CONFIG['min_iv_percentile']" (line 243)
BelowIvFloor(ivp) == ivp = <<>> \/ Lt(ivp[1], I(min_iv_percentile))

\* One iteration of the loop of run_daily_scan (lines 229-276) on what
\* get_price_data returned: how it ends, what it appends, whether it sleeps,
\* and the locals it assigned on the way.
Step(how, bucket, slept_, loc) ==
    [how |-> how, bucket |-> bucket, sleeps |-> slept_, locals |-> loc]

DailyBody(frame) ==
    IF frame.tag = "raise" THEN Step("raised", "", FALSE, NoLocals)
    ELSE IF frame = None THEN Step("unavailable", "", FALSE, NoLocals)  \* 232-233
    ELSE IF Len(frame.rows) < min_history
         THEN Step("short history", "", FALSE, NoLocals)
    ELSE IF "close" \notin frame.cols THEN Step("raised", "", FALSE, NoLocals) \* 138
    ELSE IF ~check_three_day_decline(frame.rows)
         THEN Step("no decline", "", FALSE, NoLocals)                   \* 235-236
    ELSE
    LET dd == check_drawdown(frame.rows)                                \* 238
        l2 == NoLocals @@ [valid_dd |-> dd.valid, drawdown |-> dd.dd]
    IN  IF ~dd.valid THEN Step("drawdown", "", FALSE, l2)               \* 239-240
    ELSE
    LET ivp == calculate_hv_percentile(frame.rows)                      \* 242
        l3 == l2 @@ [ivp |-> ivp]
    IN  IF BelowIvFloor(ivp) THEN Step("iv floor", "", FALSE, l3)       \* 243-244
    ELSE
    LET reg == regime_filter(frame.rows)                                \* 246
        l4 == l3 @@ [ok |-> reg.ok, reason |-> reg.reason]
    IN  IF ~reg.ok THEN Step("regime", "", FALSE, l4)                   \* 247-248
    ELSE
    LET pre == pre_trade_filter(frame.rows, ivp[1])                     \* 250
        l5 == l4 @@ [ok_pre_trade |-> pre.ok, reason_pre_trade |-> pre.reason]
    IN  IF ~pre.ok /\ pre.reason = "IV too low"
        THEN Step("soft", "signals_except_iv_strict", FALSE, l5)        \* 256-264
        ELSE IF ~pre.ok
        THEN Step("pre-trade", "", FALSE, l5)                           \* 266-267
        ELSE Step("accepted", "signals_pass_all", TRUE, l5)             \* 269-276

\* sorted(...) of lines 279-280 and the [:top_n] of lines 286-304
SortDaily(signals) == SortByScoreDesc(signals, FALSE)
RankDaily(signals) == Prefix(SortDaily(signals), top_n)

\* ------------------------------------------------ run_daily_scan: inputs
\* L bars, newest first.  Counted from the newest bar: the last four closes
\* are recent, bars 5-6 close at mid, bars 7-15 at old, the rest at base.
\* hv is v on the last 5 bars, u on the 10 before, 0 on the low bars before
\* those and 5 on the rest.
DailyRows(L, base, old, mid, recent, low, u, v) ==
    LET CloseAt(e) == IF e <= 4 THEN recent[5 - e]
                      ELSE IF e <= 6 THEN mid
                      ELSE IF e <= 15 THEN old
                      ELSE base
        HvAt(e) == IF e <= 5 THEN v
                   ELSE IF e <= 15 THEN u
                   ELSE IF e <= 15 + low THEN 0
                   ELSE 5
    IN  [e \in 1..L |-> DailyBar(L + 1 - e, CloseAt(e), HvAt(e))]

BaseCloses == {80, 120}
OldCloses == {90, 100}
MidCloses == {90, 100}
RecentCloses ==
    { <<100, 100, 99, c1>> : c1 \in {98, 97, 95, 93, 91, 90} }
    \cup { <<100, 95, 96, 95>>, <<95, 94, 93, 90>> }
HvShapes == { <<2, 3>>, <<3, 3>>, <<3, 2>> }
LowCounts == {2, 11, 12, 110, 120}

DailyOk(rows) == DailyResponse("response", 200, Body(TRUE, "dict_historical", rows, {}))

VariedCloses ==
    { DailyOk(DailyRows(260, base, old, mid, recent, 12, hs[1], hs[2])) :
        base \in BaseCloses, old \in OldCloses, mid \in MidCloses,
        recent \in RecentCloses, hs \in HvShapes }

VariedHv ==
    { DailyOk(DailyRows(260, 80, 90, 90, <<100, 100, 99, 95>>, low, hs[1], hs[2])) :
        low \in LowCounts, hs \in HvShapes }

DailySample == DailyRows(260, 80, 90, 90, <<100, 100, 99, 95>>, 120, 3, 3)

OtherLengths ==
    { DailyOk(DailyRows(L, 80, 90, 90, <<100, 100, 99, 95>>, 120, 3, 3)) :
        L \in {259, 300, 301} }

\* The sample with closes of zero from the gap-th newest bar back: no window
\* that reaches one of them has an HV, gap - 1 - HV_WINDOW windows have.
GappedRows(gap) ==
    LET full == DailyRows(260, 80, 90, 90, <<100, 100, 99, 95>>, 260, 3, 3)
    IN  [e \in 1..260 |->
            IF e >= gap THEN DailyBar(full[e].date, 0, -1)
            ELSE IF e + HV_WINDOW >= gap THEN DailyBar(full[e].date, full[e].close, -1)
            ELSE full[e]]

Gaps == {120, 121}
GappedHv == { DailyOk(GappedRows(gap)) : gap \in Gaps }

FailedResponses ==
    { DailyResponse("exception", 0, Body(FALSE, "list", <<>>, {})),
      DailyResponse("response", 404, Body(FALSE, "list", <<>>, {})),
      DailyResponse("response", 200, Body(FALSE, "list", <<>>, {})),
      DailyResponse("response", 200, Body(TRUE, "list", <<>>, {})),
      DailyResponse("response", 200, Body(TRUE, "dict_other", <<>>, {})),
      DailyResponse("response", 200, Body(TRUE, "dict_historical", <<>>, {})),
      DailyResponse("response", 200, Body(TRUE, "dict_historical", DailySample, {"date"})),
      DailyResponse("response", 200, Body(TRUE, "dict_historical", DailySample, {"close"})) }

\* Two more series: one whose drawdown (-100/19 %) and HV percentile
\* (110 of 240, 45.8333..) both have more decimals than a record stores, and
\* one that ends on two equal closes.
EdgeSamples ==
    { DailyOk(DailyRows(260, 80, 90, 90, <<95, 94, 93, 90>>, 110, 3, 3)),
      DailyOk(DailyRows(260, 80, 90, 90, <<100, 96, 95, 95>>, 120, 3, 3)) }

DailyResponses ==
    VariedCloses \cup VariedHv \cup GappedHv \cup EdgeSamples \cup OtherLengths
        \cup FailedResponses

\* What one iteration computes from a response: the frame of get_price_data,
\* how the loop body ends on it, and the record it appends (symbol filled in
\* by the loop).
DailyRun(resp) ==
    LET frame == get_price_data(resp)
        step == DailyBody(frame)
    IN  [frame |-> frame, step |-> step,
         signal |-> IF step.bucket = "" THEN <<>> ELSE DailySignal(0, frame.rows)]

DailyRuns == { DailyRun(resp) : resp \in DailyResponses }

\* ------------------------------------------------ run_daily_scan: the loop
\* One iteration of "for symbol in TICKER_UNIVERSE" (lines 229-276).
DailyIteration ==
    /\ pc = "loop"
    /\ scan = "run_daily_scan"
    /\ idx <= MaxSymbols
    /\ \E run \in DailyRuns :
       \E frame \in {run.frame} :
       \E step \in {run.step} :
         /\ fetched' = Append(fetched, idx)
         /\ df' = IF frame.tag = "df" THEN frame ELSE NoFrame
         /\ outcome' = step.how
         /\ locals' = step.locals
         /\ signals_pass_all' =
                IF step.bucket = "signals_pass_all"
                THEN Append(signals_pass_all, [run.signal EXCEPT !.symbol = idx])
                ELSE signals_pass_all
         /\ signals_except_iv_strict' =
                IF step.bucket = "signals_except_iv_strict"
                THEN Append(signals_except_iv_strict,
                            [run.signal EXCEPT !.symbol = idx]
                                @@ [reason |-> "IV too low"])
                ELSE signals_except_iv_strict
         /\ paused' = IF step.sleeps THEN paused \cup {idx} ELSE paused   \* 276
         /\ scored' = IF step.how \in {"raised", "unavailable", "short history"}
                      THEN scored ELSE scored \cup {idx}
         /\ IF step.how = "raised"
            THEN pc' = "raised" /\ idx' = idx
            ELSE pc' = "loop" /\ idx' = idx + 1
    /\ UNCHANGED <<bookVars, scan, test_date, exhausted, sc, results, output>>
    /\ UNCHANGED rwrVars

\* after the loop: sort both lists and report the first top_n of each
\* (lines 278-305)
DailyRankAndReport ==
    /\ pc = "loop"
    /\ scan = "run_daily_scan"
    /\ idx > MaxSymbols
    /\ signals_pass_all' = SortDaily(signals_pass_all)
    /\ signals_except_iv_strict' = SortDaily(signals_except_iv_strict)
    /\ output' = [pass_all |-> RankDaily(signals_pass_all),
                  except_iv_strict |-> RankDaily(signals_except_iv_strict)]
    /\ pc' = "done"
    /\ UNCHANGED <<bookVars, scan, test_date, idx, fetched, paused, exhausted, scored, df, sc,
                   outcome, results, locals>>
    /\ UNCHANGED rwrVars

\* ---------------------------------------------------------- specification
\* The scans below do not touch the workbook.
NoWorkbook ==
    /\ workbook = <<>>
    /\ if_sheet_exists = "error"
    /\ today = 1
    /\ runs = 0

Init ==
    /\ \/ scan \in BreakoutScans /\ test_date \in TestDates
       \/ scan = "run_daily_scan" /\ test_date = <<>>
    /\ pc = "loop"
    /\ idx = 1
    /\ fetched = <<>>
    /\ paused = {}
    /\ exhausted = {}
    /\ scored = {}
    /\ attempt = 0
    /\ backoff = INITIAL_BACKOFF
    /\ gets = 0
    /\ slept = 0
    /\ r = None
    /\ df = NoFrame
    /\ sc = 0
    /\ outcome = "start"
    /\ results = <<>>
    /\ signals_pass_all = <<>>
    /\ signals_except_iv_strict = <<>>
    /\ locals = NoLocals
    /\ output = <<>>
    /\ NoWorkbook

Next ==
    \/ Fetch
    \/ RwrNetworkError
    \/ RwrSuccess
    \/ RwrRateLimited
    \/ RwrServerError
    \/ RwrNonRetriable
    \/ RwrExhausted
    \/ ReturnToCaller
    \/ Evaluate
    \/ RankAndReturn
    \/ DailyIteration
    \/ DailyRankAndReport

Spec == Init /\ [][Next]_vars


\* request_with_retries on its own: one call, from its first line.
InitRetry ==
    /\ scan = "request_with_retries"
    /\ test_date = <<>>
    /\ pc = "rwr"
    /\ idx = 1
    /\ fetched = <<>>
    /\ paused = {}
    /\ exhausted = {}
    /\ scored = {}
    /\ attempt = 0
    /\ backoff = INITIAL_BACKOFF
    /\ gets = 0
    /\ slept = 0
    /\ r = None
    /\ df = NoFrame
    /\ sc = 0
    /\ outcome = "start"
    /\ results = <<>>
    /\ signals_pass_all = <<>>
    /\ signals_except_iv_strict = <<>>
    /\ locals = NoLocals
    /\ output = <<>>
    /\ NoWorkbook

\* The interpreter keeps running the loop: a step that can be taken is taken.
FairRetry ==
    InitRetry /\ [][request_with_retries]_vars /\ WF_vars(request_with_retries)

\* The rank and truncate step on its own: the loop has ended with a list of
\* n candidates, the symbols 1..n in the order they were seen.
RankScores == {2, 3, 5}
RankSignals == { <<I(-3), I(50)>>, <<I(-5), I(50)>>, <<I(-9), I(60)>> }

BreakoutLists ==
    UNION { { [i \in 1..n |-> Candidate(i, f[i])] : f \in [1..n -> RankScores] } :
            n \in 0..MaxCand }
DailyLists ==
    UNION { { [i \in 1..n |-> Signal(i, f[i][1], f[i][2])] : f \in [1..n -> RankSignals] } :
            n \in 0..MaxCand }

InitRank ==
    /\ test_date = <<>>
    /\ pc = "loop"
    /\ idx = MaxCand + MaxSymbols
    /\ fetched = [i \in 1..(MaxCand + MaxSymbols - 1) |-> i]
    /\ paused = {}
    /\ exhausted = {}
    /\ scored = {}
    /\ attempt = 0
    /\ backoff = INITIAL_BACKOFF
    /\ gets = 0
    /\ slept = 0
    /\ r = None
    /\ df = NoFrame
    /\ sc = 0
    /\ outcome = "start"
    /\ locals = NoLocals
    /\ output = <<>>
    /\ NoWorkbook
    /\ \/ /\ scan \in BreakoutScans
          /\ results \in BreakoutLists
          /\ signals_pass_all = <<>>
          /\ signals_except_iv_strict = <<>>
       \/ /\ scan = "run_daily_scan"
          /\ results = <<>>
          /\ \E l \in DailyLists :
               \/ signals_pass_all = l /\ signals_except_iv_strict = <<>>
               \/ signals_pass_all = <<>> /\ signals_except_iv_strict = l

NextRank ==
    \/ RankAndReturn
    \/ DailyRankAndReport

SpecRank == InitRank /\ [][NextRank]_vars

\* calculate_rsi on its own: pre_trade_filter's "rsi =
\* calculate_rsi(df["close"]).iloc[-1]" (line 198) on a series of closes.
\* The closes are flat at 100 but for three moves: into the newest bar, into
\* the bar 5 before it and into the bar 10 before it.
RsiMoves == {-2, 0, 3}
RsiLengths == {RSI_PERIOD, RSI_PERIOD + 1, RSI_PERIOD + 2}
RsiRows(L, m1, m2, m3) ==
    LET CloseAt(e) == 100 + (IF e <= 1 THEN m1 ELSE 0)
                          + (IF e <= 6 THEN m2 ELSE 0)
                          + (IF e <= 11 THEN m3 ELSE 0)
    IN  Reverse([e \in 1..L |-> DailyBar(L + 1 - e, CloseAt(e), 0)])
RsiFrames ==
    { Frame(RsiRows(L, m1, m2, m3), {"date", "close"}) :
        L \in RsiLengths, m1 \in RsiMoves, m2 \in RsiMoves, m3 \in RsiMoves }

InitRsi ==
    /\ scan = "calculate_rsi"
    /\ test_date = <<>>
    /\ pc = "rsi"
    /\ idx = 1
    /\ fetched = <<>>
    /\ paused = {}
    /\ exhausted = {}
    /\ scored = {}
    /\ attempt = 0
    /\ backoff = INITIAL_BACKOFF
    /\ gets = 0
    /\ slept = 0
    /\ r = None
    /\ df \in RsiFrames
    /\ sc = 0
    /\ outcome = "start"
    /\ results = <<>>
    /\ signals_pass_all = <<>>
    /\ signals_except_iv_strict = <<>>
    /\ locals = NoLocals
    /\ output = <<>>
    /\ NoWorkbook

\* line 198
ComputeRsi ==
    /\ pc = "rsi"
    /\ scan = "calculate_rsi"
    /\ locals' = NoLocals @@ [rsi |-> calculate_rsi(Column(df.rows, "close"))]
    /\ pc' = "done"
    /\ UNCHANGED <<bookVars, scan, test_date, idx, fetched, paused, exhausted, scored, df, sc,
                   outcome, results, signals_pass_all, signals_except_iv_strict,
                   output>>
    /\ UNCHANGED rwrVars

SpecRsi == InitRsi /\ [][ComputeRsi]_vars

\* ------------------------------------------------------------ persistence
\* Both scripts write the workbook data/grades_updates.xlsx
\* (penny_losers_gainers.py:8, grade_change_db.py:7).  A worksheet is a title
\* and its rows; the title <<name, 0>> is the sheet called name, <<name, k>>
\* the sheet openpyxl calls name followed by k.
MaxRuns == 3

Worksheet(title, rows) == [title |-> title, rows |-> rows]
Title(name, k) == <<name, k>>

\* os.path.exists(excel_path)
Exists(wb) == wb # <<>>
HasSheet(wb, name) == \E i \in 1..Len(wb) : wb[i].title = Title(name, 0)
SheetRows(wb, title) ==
    LET i == CHOOSE i \in 1..Len(wb) : wb[i].title = title IN wb[i].rows
Copies(wb, name) == Cardinality({ i \in 1..Len(wb) : wb[i].title[1] = name })

\* pd.read_excel(excel_path, sheet_name=...): ValueError when the workbook
\* has no sheet of that name.  String cells come back as they were written.
read_excel(wb, name) ==
    IF HasSheet(wb, name)
    THEN [raised |-> FALSE, rows |-> SheetRows(wb, Title(name, 0))]
    ELSE [raised |-> TRUE, rows |-> <<>>]

\* What to_excel puts in the cells of a row: strings as they are, a list
\* (last_5_close) as its str().
Stored(row) ==
    IF "last_5_close" \in DOMAIN row
    THEN [row EXCEPT !.last_5_close = [@ EXCEPT !.list = FALSE]]
    ELSE row
StoredRows(rows) == [i \in 1..Len(rows) |-> Stored(rows[i])]

\* DataFrame.drop_duplicates(subset=...), keep="first"; the subset {} stands
\* for no subset: rows are compared on every column.
SameOn(a, b, subset) ==
    IF subset = {} THEN a = b ELSE \A c \in subset : a[c] = b[c]
RECURSIVE drop_duplicates(_, _)
drop_duplicates(rows, subset) ==
    IF Len(rows) = 0 THEN <<>>
    ELSE LET n == Len(rows)
             head == drop_duplicates(SubSeq(rows, 1, n - 1), subset)
         IN  IF \E j \in 1..(n - 1) : SameOn(rows[j], rows[n], subset)
             THEN head
             ELSE Append(head, rows[n])

\* with pd.ExcelWriter(excel_path, engine="openpyxl", mode=...) as writer:
\*     rows.to_excel(writer, sheet_name=name, index=False)
\* Mode "w" starts a new workbook.  Mode "a" loads the workbook and adds the
\* sheet; when a sheet of that name is there already, pandas from 1.3 on
\* raises ValueError (if_sheet_exists defaults to "error") and saves the
\* workbook as it was, and an older pandas writes to a new sheet whose name
\* gets a number.
to_excel(wb, rows, name, mode, build) ==
    IF mode = "w"
    THEN [raised |-> FALSE, book |-> <<Worksheet(Title(name, 0), StoredRows(rows))>>]
    ELSE IF ~HasSheet(wb, name)
    THEN [raised |-> FALSE,
          book |-> Append(wb, Worksheet(Title(name, 0), StoredRows(rows)))]
    ELSE IF build = "error"
    THEN [raised |-> TRUE, book |-> wb]
    ELSE [raised |-> FALSE,
          book |-> Append(wb, Worksheet(Title(name, Copies(wb, name)),
                                        StoredRows(rows)))]

\* penny_losers_gainers.py:330-349
append_df_to_excel(df_, sheet_name, wb, build) ==
    LET existing_df == read_excel(wb, sheet_name)
        df_combined ==
            IF Exists(wb) /\ ~existing_df.raised
            THEN drop_duplicates(existing_df.rows \o df_, {"symbol"})
            ELSE df_
    IN  to_excel(wb, df_combined, sheet_name,
                 IF Exists(wb) THEN "a" ELSE "w", build)

\* The records of a run on day d.  A breakout record (lines 224-230) is
\* reduced to its symbol and to last_5_close, a list whose newest entry is
\* dated d; a grade record (grade_change_db.py:114-115, as the API sends it)
\* to symbol, date, gradingCompany and newGrade; a trend record
\* (grade_change_db.py:160-171) to Symbol, Latest_Date and Trend.
BreakoutRecord(s, d) ==
    [symbol |-> s, last_5_close |-> [list |-> TRUE, newest |-> d]]
BreakoutFrames(d) ==
    { <<>>,
      <<BreakoutRecord("AAA", d)>>,
      <<BreakoutRecord("BBB", d), BreakoutRecord("AAA", d)>> }
GradeRecord(d, g) ==
    [symbol |-> "AAA", date |-> d, gradingCompany |-> "GS", newGrade |-> g]
Grades == {"Buy", "Hold"}
GradeFrames(d) ==
    {<<>>} \cup { <<GradeRecord(d, g)>> : g \in Grades }
           \cup { <<GradeRecord(d, g), GradeRecord(d - 1, "Buy")>> : g \in Grades }
TrendFrames(d) ==
    { <<>>, <<[Symbol |-> "AAA", Latest_Date |-> d, Trend |-> "Raised"]>> }

\* A run starts: the same day as the run before or the day after.
StartRun ==
    /\ pc = "idle"
    /\ runs < MaxRuns
    /\ runs' = runs + 1
    /\ today' \in {today, today + 1}
    /\ UNCHANGED <<if_sheet_exists, test_date, idx, fetched, paused, exhausted,
                   scored, sc, results, signals_pass_all,
                   signals_except_iv_strict, output>>
    /\ UNCHANGED rwrVars

\* penny_losers_gainers.py:352-380: the three lists are picked
BreakoutMain ==
    /\ StartRun
    /\ scan' = "penny_losers_gainers"
    /\ pc' = "penny"
    /\ df' = <<>>
    /\ locals' = NoLocals
    /\ outcome' = "start"
    /\ UNCHANGED workbook

\* lines 381-386: "if not df.empty: append_df_to_excel(df, sheet, excel_path)";
\* an exception of the write ends the script.
AppendStep(position, sheet_name, next) ==
    /\ pc = position
    /\ \E frame \in BreakoutFrames(today) :
          /\ df' = frame
          /\ locals' = NoLocals @@ [sheet_name |-> sheet_name]
          /\ IF Len(frame) = 0
             THEN /\ outcome' = "skipped"
                  /\ pc' = next
                  /\ UNCHANGED workbook
             ELSE LET w == append_df_to_excel(frame, sheet_name, workbook,
                                              if_sheet_exists)
                  IN  /\ workbook' = w.book
                      /\ outcome' = IF w.raised THEN "raised" ELSE "written"
                      /\ pc' = IF w.raised THEN "idle" ELSE next
    /\ UNCHANGED <<if_sheet_exists, today, runs, scan, test_date, idx, fetched,
                   paused, exhausted, scored, sc, results, signals_pass_all,
                   signals_except_iv_strict, output>>
    /\ UNCHANGED rwrVars

AppendPenny == AppendStep("penny", "Top Penny Stocks", "sp500")
AppendSp500 == AppendStep("sp500", "Top SP500 Stocks", "sp500_down")
AppendSp500Down == AppendStep("sp500_down", "Bottom SP500 Stocks", "idle")

\* grade_change_db.py:192-198: no upgrade or downgrade found
SendUpdatesNoMatch ==
    /\ StartRun
    /\ scan' = "send_updates"
    /\ df' = <<>>
    /\ locals' = NoLocals
    /\ outcome' = "returned"
    /\ UNCHANGED <<workbook, pc>>

\* grade_change_db.py:203-214
SendUpdatesGrades ==
    /\ StartRun
    /\ scan' = "send_updates"
    /\ locals' = NoLocals @@ [sheet_name |-> "Grades Updates"]
    /\ \E df_grades \in GradeFrames(today') :
          /\ df' = df_grades
          /\ LET df_old == read_excel(workbook, "Grades Updates")
                 df_combined ==
                     IF Exists(workbook)
                     THEN drop_duplicates(df_old.rows \o df_grades, {})
                     ELSE df_grades
                 w == to_excel(workbook, df_combined, "Grades Updates", "w",
                               if_sheet_exists)
             IN  IF Exists(workbook) /\ df_old.raised
                 THEN /\ outcome' = "raised"
                      /\ pc' = "idle"
                      /\ UNCHANGED workbook
                 ELSE /\ outcome' = "written"
                      /\ pc' = "trend"
                      /\ workbook' = w.book

\* lines 219-233: requests.post of the grades message is not guarded; an
\* exception ends the script before the trend sheet is written.
SendUpdatesPostFails ==
    /\ pc = "trend"
    /\ Len(df) > 0
    /\ pc' = "idle"
    /\ outcome' = "post failed"
    /\ UNCHANGED <<bookVars, scan, test_date, idx, fetched, paused, exhausted,
                   scored, df, sc, results, signals_pass_all,
                   signals_except_iv_strict, locals, output>>
    /\ UNCHANGED rwrVars

\* lines 238-249
SendUpdatesTrend ==
    /\ pc = "trend"
    /\ locals' = NoLocals @@ [sheet_name |-> "Price Target Trend"]
    /\ \E df_trends \in TrendFrames(today) :
          /\ df' = df_trends
          /\ IF Len(df_trends) = 0
             THEN /\ outcome' = "skipped"
                  /\ UNCHANGED workbook
             ELSE LET w == to_excel(workbook, df_trends, "Price Target Trend",
                                    "a", if_sheet_exists)
                  IN  /\ workbook' = w.book
                      /\ outcome' = IF w.raised THEN "raised" ELSE "written"
    /\ pc' = "idle"
    /\ UNCHANGED <<if_sheet_exists, today, runs, scan, test_date, idx, fetched,
                   paused, exhausted, scored, sc, results, signals_pass_all,
                   signals_except_iv_strict, output>>
    /\ UNCHANGED rwrVars

InitPersist ==
    /\ scan = "none"
    /\ test_date = <<>>
    /\ pc = "idle"
    /\ idx = 1
    /\ fetched = <<>>
    /\ paused = {}
    /\ exhausted = {}
    /\ scored = {}
    /\ attempt = 0
    /\ backoff = INITIAL_BACKOFF
    /\ gets = 0
    /\ slept = 0
    /\ r = None
    /\ df = <<>>
    /\ sc = 0
    /\ outcome = "start"
    /\ results = <<>>
    /\ signals_pass_all = <<>>
    /\ signals_except_iv_strict = <<>>
    /\ locals = NoLocals
    /\ output = <<>>
    /\ workbook = <<>>
    /\ if_sheet_exists \in {"error", "new"}
    /\ today = 1
    /\ runs = 0

NextPersist ==
    \/ BreakoutMain
    \/ AppendPenny
    \/ AppendSp500
    \/ AppendSp500Down
    \/ SendUpdatesNoMatch
    \/ SendUpdatesGrades
    \/ SendUpdatesPostFails
    \/ SendUpdatesTrend

SpecPersist == InitPersist /\ [][NextPersist]_vars

\* ------------------------------------------------------------ properties
\* The bars of the frame of this iteration, counted back from the newest.
CloseBack(k) == df.rows[Len(df.rows) + 1 - k].close
VolumeBack(k) == df.rows[Len(df.rows) + 1 - k].volume
HvBack(k) == df.rows[Len(df.rows) + 1 - k].hv
SumCloseBack(w) == SumSeq([k \in 1..w |-> CloseBack(k)])
SumVolumeBack(w) == SumSeq([k \in 1..w |-> VolumeBack(k)])
SumHvBack(from, to) == SumSeq([k \in 1..(to - from + 1) |-> HvBack(from + k - 1)])

\* C1: in every scan a failure in one symbol's own pipeline (network
\* exception, non-200 status, undecodable body, empty history, records that
\* lack 'date' or 'volume') never ends the scan: the symbol is skipped, every
\* later symbol is still fetched, and the scan reaches its rank step.
C1_SymbolFailureNeverEndsScan ==
    /\ pc # "raised"
    /\ pc = "done" => Range(fetched) = Universe

\* C2: in the pick_* scans a symbol whose request_with_retries returned None
\* adds no entry to results, and every later symbol of the universe is still
\* fetched and scored before the scan ends.
C2_ExhaustedSymbolIsSkipped ==
    \A s \in exhausted :
        /\ \A i \in 1..Len(results) : results[i].symbol # s
        /\ pc \in {"done", "raised"} =>
              \A t \in Universe : t > s => t \in Range(fetched) /\ t \in scored

\* The GETs of one call: each failed one is counted in attempt, a returned
\* response is one more, and None is returned with the budget used up.
C3_Budget ==
    /\ gets <= MAX_RETRIES
    /\ attempt <= MAX_RETRIES
    /\ pc = "rwr" => gets = attempt
    /\ (pc = "returned" /\ r # None) => gets = attempt + 1
    /\ (pc = "returned" /\ r = None) => gets = MAX_RETRIES /\ attempt = MAX_RETRIES

C4_PauseAfterEveryFetch ==
    \A i \in 1..(Len(fetched) - 1) : fetched[i] \in paused

\* C5: a symbol becomes a candidate only with a series at least as long as
\* the longest window of the indicators its scan evaluates: EXTREME_WINDOW
\* bars in the breakout scans, the DMA window and HV_WINDOW + HV_MIN_POINTS
\* bars in run_daily_scan.
C5_CandidateHasFullWindows ==
    /\ (scan \in BreakoutScans /\ outcome = "retained") =>
          Len(df.rows) >= EXTREME_WINDOW
    /\ (scan = "run_daily_scan" /\ outcome \in {"soft", "accepted"}) =>
          /\ Len(df.rows) >= dma_window
          /\ Len(df.rows) >= HV_WINDOW + HV_MIN_POINTS

\* The five sub-signals in integers, on the frame of this iteration.
SubSignalHolds(k) ==
    LET up == scan # "pick_sp500_stocks_down"
        c1 == CloseBack(1)
        c2 == CloseBack(2)
        c3 == CloseBack(3)
        last20 == {CloseBack(j) : j \in 1..EXTREME_WINDOW}
    IN  CASE k = 1 -> IF up THEN 5 * c1 > SumCloseBack(5) /\ 10 * c1 > SumCloseBack(10)
                      ELSE 5 * c1 < SumCloseBack(5) /\ 10 * c1 < SumCloseBack(10)
          [] k = 2 -> IF up THEN 100 * (c1 - c2) > 5 * c2
                      ELSE 100 * (c1 - c2) < -5 * c2
          [] k = 3 -> IF up THEN 100 * (c2 - c3) > 3 * c3
                      ELSE 100 * (c2 - c3) < -3 * c3
          [] k = 4 -> /\ Len(df.rows) >= EXTREME_WINDOW
                      /\ IF up THEN \A c \in last20 : 100 * c1 >= 95 * c
                         ELSE \A c \in last20 : 100 * c1 <= 105 * c
          [] k = 5 -> 10 * VolumeBack(1) > 3 * SumVolumeBack(5)

ScoreAbove(a, b) ==
    IF scan \in BreakoutScans THEN a.score > b.score
    ELSE a.score.n * b.score.d > b.score.n * a.score.d
Ahead(a, b) == ScoreAbove(a, b) \/ (~ScoreAbove(b, a) /\ a.symbol < b.symbol)
MinOfTwo(a, b) == IF a < b THEN a ELSE b
RankedTop(all, out, k) ==
    /\ Len(out) = MinOfTwo(Len(all), k)
    /\ \A i \in 1..(Len(out) - 1) : Ahead(out[i], out[i + 1])
    /\ \A i \in 1..(Len(all) - 1) : Ahead(all[i], all[i + 1])
    /\ Range(out) \subseteq Range(all)
    /\ \A x \in Range(all) \ Range(out) : \A y \in Range(out) : Ahead(y, x)

\* C7: what a scan returns is its candidate list ordered by score, highest
\* first, cut to the first TOP_N (top_n in run_daily_scan) entries; of
\* candidates with the same score the one seen first comes first, and no
\* candidate left out ranks ahead of one kept.
C7_OutputIsTopByScore ==
    pc = "done" =>
        IF scan \in BreakoutScans
        THEN RankedTop(results, output, TOP_N)
        ELSE /\ RankedTop(signals_pass_all, output.pass_all, top_n)
             /\ RankedTop(signals_except_iv_strict, output.except_iv_strict, top_n)
C7_TieKeepsFirstSeenFirst ==
    /\ scan = "run_daily_scan"
    /\ pc = "done"
    /\ Len(signals_pass_all) = top_n + 1
    /\ [i \in 1..top_n |-> output.pass_all[i].symbol] = <<2, 3, 1>>
    /\ output.pass_all[1].score = output.pass_all[2].score
    /\ signals_pass_all[top_n + 1].symbol = 4

\* The iterations of run_daily_scan that got as far as a stage.
ReachedDrawdown ==
    /\ scan = "run_daily_scan"
    /\ outcome \in {"drawdown", "iv floor", "regime", "soft", "pre-trade", "accepted"}
ReachedIvFloor ==
    /\ scan = "run_daily_scan"
    /\ outcome \in {"iv floor", "regime", "soft", "pre-trade", "accepted"}
ReachedRegime ==
    /\ scan = "run_daily_scan"
    /\ outcome \in {"regime", "soft", "pre-trade", "accepted"}

\* C8: check_drawdown accepts exactly when the 3-bar percent return
\* (close[-1] / close[-4] - 1) * 100 lies in the closed interval
\* [drawdown_min, drawdown_max]; a return equal to either boundary is accepted.
C8_DrawdownBandIsClosed ==
    ReachedDrawdown =>
        LET c0 == CloseBack(1)
            c3 == CloseBack(4)
            inBand == /\ drawdown_min * c3 <= 100 * (c0 - c3)
                      /\ 100 * (c0 - c3) <= drawdown_max * c3
        IN  /\ locals.drawdown.n * c3 = 100 * (c0 - c3) * locals.drawdown.d
            /\ locals.valid_dd <=> inBand
            /\ outcome # "drawdown" <=> inBand
C8_BothBoundariesAccepted ==
    /\ scan = "run_daily_scan"
    /\ \E i, j \in 1..Len(signals_except_iv_strict) :
          /\ signals_except_iv_strict[i].drawdown_pct = I(drawdown_max)
          /\ signals_except_iv_strict[j].drawdown_pct = I(drawdown_min)

\* The HV points calculate_hv_percentile works on: at most the last HV_TAIL
\* of the bars that have one.
HvPoints ==
    MinOfTwo(HV_TAIL,
             Cardinality({i \in (HV_WINDOW + 1)..Len(df.rows) : df.rows[i].hv >= 0}))

\* C9 as the specification states it: stage 3 lets a symbol through only
\* with an HV percentile strictly above min_iv_percentile.
C9_PassesOnlyStrictlyAboveFloor ==
    ReachedRegime =>
        /\ locals.ivp # <<>>
        /\ locals.ivp[1].n > min_iv_percentile * locals.ivp[1].d

\* C9: stage 3 lets a symbol through exactly when its HV percentile is
\* defined and not below min_iv_percentile: a percentile equal to the minimum
\* passes, an undefined one (fewer than HV_MIN_POINTS HV points) is rejected.
C9_PassesFromFloorUp ==
    ReachedIvFloor =>
        /\ locals.ivp = <<>> <=> HvPoints < HV_MIN_POINTS
        /\ outcome # "iv floor" <=>
              /\ locals.ivp # <<>>
              /\ locals.ivp[1].n >= min_iv_percentile * locals.ivp[1].d
C9_FloorPassesUndefinedRejected ==
    /\ scan = "run_daily_scan"
    /\ outcome = "iv floor"
    /\ locals.ivp = <<>>
    /\ Len(signals_except_iv_strict) = 1
    /\ signals_except_iv_strict[1].iv_percentile = I(min_iv_percentile)

\* C10: regime_filter rejects, with the reason "Accelerating selloff",
\* exactly when the 10-bar percent return is strictly below
\* max_10d_drop_for_regime and the HV trend (mean of the last 5 HV values
\* minus mean of the 10 before) is strictly above hv_trend_threshold.
C10_RegimeRejectsAcceleratingSelloff ==
    (ReachedRegime /\ \A k \in 1..15 : HvBack(k) >= 0) =>
        LET c1 == CloseBack(1)
            c11 == CloseBack(11)
            drop == 100 * (c1 - c11) < max_10d_drop_for_regime * c11
            rising == 2 * SumHvBack(1, 5) - SumHvBack(6, 15) > 10 * hv_trend_threshold
        IN  /\ outcome = "regime" <=> (drop /\ rising)
            /\ locals.ok <=> ~(drop /\ rising)
            /\ locals.reason = "Accelerating selloff" <=> (drop /\ rising)
C10_TenPercentDropRisingHv ==
    /\ scan = "run_daily_scan"
    /\ outcome = "regime"
    /\ 100 * (CloseBack(1) - CloseBack(11)) = -10 * CloseBack(11)
    /\ 2 * SumHvBack(1, 5) - SumHvBack(6, 15) > 0
    /\ locals.reason = "Accelerating selloff"

\* The iterations of run_daily_scan that called pre_trade_filter.
ReachedPreTrade ==
    /\ scan = "run_daily_scan"
    /\ outcome \in {"soft", "pre-trade", "accepted"}

\* The sub-checks of stage 5 in integers, on the frame of this iteration.
\* With G and L the sums of the gains and of the losses of the last
\* RSI_PERIOD bars, RSI = 100 * G / (G + L).
GainBack(k) ==
    IF CloseBack(k) > CloseBack(k + 1) THEN CloseBack(k) - CloseBack(k + 1) ELSE 0
LossBack(k) ==
    IF CloseBack(k) < CloseBack(k + 1) THEN CloseBack(k + 1) - CloseBack(k) ELSE 0
SumGainBack == SumSeq([k \in 1..RSI_PERIOD |-> GainBack(k)])
SumLossBack == SumSeq([k \in 1..RSI_PERIOD |-> LossBack(k)])
TrendHolds == dma_window * CloseBack(1) >= SumCloseBack(dma_window)
RsiHolds == 100 * SumGainBack >= rsi_min * (SumGainBack + SumLossBack)
FiveBarReturnHolds ==
    100 * (CloseBack(1) - CloseBack(6)) >= max_5d_drop * CloseBack(6)
StrictIvHolds == locals.ivp[1].n >= iv_filter_strict * locals.ivp[1].d
InBucket(bucket, sym) == \E i \in 1..Len(bucket) : bucket[i].symbol = sym

\* C11: the symbol of an iteration of run_daily_scan is put in
\* signals_except_iv_strict exactly when it passes stages 1 to 4 and, in
\* stage 5, passes the trend, RSI and 5-bar-return sub-checks and fails the
\* strict HV-percentile sub-check; failing another sub-check of stage 5 it
\* is in neither bucket, whatever its HV percentile.
C11_SoftBucketOnlyForStrictIv ==
    (scan = "run_daily_scan" /\ Len(fetched) > 0) =>
        LET sym == fetched[Len(fetched)]
            soft == InBucket(signals_except_iv_strict, sym)
            hard == InBucket(signals_pass_all, sym)
        IN  /\ soft => ReachedPreTrade
            /\ ReachedPreTrade =>
                  LET others == FiveBarReturnHolds /\ RsiHolds /\ TrendHolds
                  IN  /\ soft <=> (others /\ ~StrictIvHolds)
                      /\ ~others => ~soft /\ ~hard
C11_OtherSubCheckFailsWithLowIv ==
    /\ scan = "run_daily_scan"
    /\ pc = "loop"
    /\ outcome = "pre-trade"
    /\ ~StrictIvHolds
    /\ Len(signals_except_iv_strict) = 1
    /\ signals_except_iv_strict[1].symbol = 1
    /\ signals_pass_all = <<>>

\* C12: calculate_rsi gives exactly 100 wherever the average loss of the
\* period is zero, also when the period has no gain either (equal closes),
\* and never an undefined value.
C12_ZeroLossGivesHundred ==
    (scan = "calculate_rsi" /\ pc = "done" /\ Len(df.rows) > RSI_PERIOD
        /\ SumLossBack = 0) =>
        locals.rsi = I(100)

\* The score recomputed from the fields a record stores.
ScoreOfStored(rec) ==
    Round(Add(AbsQ(rec.drawdown_pct), Div(rec.iv_percentile, I(10))), 2)

\* C13 as the specification states it: in every record of either bucket of
\* run_daily_scan, score is |drawdown_pct| + iv_percentile / 10 rounded to
\* 2 decimals, drawdown_pct and iv_percentile being the values the record
\* stores.
C13_ScoreFromStoredFields ==
    scan = "run_daily_scan" =>
        /\ \A i \in 1..Len(signals_pass_all) :
              signals_pass_all[i].score = ScoreOfStored(signals_pass_all[i])
        /\ \A i \in 1..Len(signals_except_iv_strict) :
              signals_except_iv_strict[i].score
                  = ScoreOfStored(signals_except_iv_strict[i])

\* s is x rounded to a multiple of 1 / scale: a multiple, and not further
\* than half a step from x.
RoundedTo(s, x, scale) ==
    /\ scale % s.d = 0
    /\ 2 * scale * AbsI(x.n * s.d - s.n * x.d) <= x.d * s.d

\* |drawdown| + ivp / 10 of the values this iteration computed
BlendOfLocals ==
    LET dd == locals.drawdown
        ivp == locals.ivp[1]
    IN  Q(10 * AbsI(dd.n) * ivp.d + ivp.n * dd.d, 10 * dd.d * ivp.d)

\* C13: the record run_daily_scan appends, to either bucket, has score =
\* |drawdown| + ivp / 10 rounded to 2 decimals, drawdown and ivp being the
\* unrounded 3-bar return and HV percentile of the iteration; the record
\* stores them rounded to 2 and to 1 decimal.
C13_ScoreFromComputedValues ==
    (scan = "run_daily_scan" /\ outcome \in {"soft", "accepted"}) =>
        LET sym == fetched[Len(fetched)]
            bucket == IF outcome = "soft" THEN signals_except_iv_strict
                      ELSE signals_pass_all
        IN  \E i \in 1..Len(bucket) :
              /\ bucket[i].symbol = sym
              /\ RoundedTo(bucket[i].score, BlendOfLocals, 100)
              /\ RoundedTo(bucket[i].drawdown_pct, locals.drawdown, 100)
              /\ RoundedTo(bucket[i].iv_percentile, locals.ivp[1], 10)
C13_StoredFieldsGiveAnotherScore ==
    /\ scan = "run_daily_scan"
    /\ outcome = "soft"
    /\ Len(signals_except_iv_strict) = 1
    /\ signals_except_iv_strict[1].drawdown_pct = Q(-263, 50)
    /\ signals_except_iv_strict[1].iv_percentile = Q(229, 5)
    /\ signals_except_iv_strict[1].score = Q(197, 20)
    /\ ScoreOfStored(signals_except_iv_strict[1]) = Q(246, 25)

\* C18: whenever run_daily_scan calls pre_trade_filter, stage 1 has let
\* through only a series whose last three closes fall strictly, so the
\* losses of the last RSI_PERIOD bars sum to more than zero and the average
\* loss the RSI divides by is positive.
C18_AverageLossPositiveAtPreTrade ==
    ReachedPreTrade =>
        /\ CloseBack(1) < CloseBack(2)
        /\ CloseBack(2) < CloseBack(3)
        /\ SumLossBack > 0
C18_RsiComputedOnLossesOnly ==
    /\ scan = "run_daily_scan"
    /\ outcome = "pre-trade"
    /\ locals.reason_pre_trade = "RSI too low"
    /\ SumGainBack = 0
    /\ SumLossBack > 0

\* A field of a record against a whole number.
AtLeast(x, k) == x.n >= k * x.d
AtMost(x, k) == x.n <= k * x.d
Below(x, k) == x.n < k * x.d

\* C19: every symbol of the universe has at most one record in the two
\* buckets of run_daily_scan together; a record of signals_pass_all has an
\* HV percentile of at least iv_filter_strict and a drawdown within
\* [drawdown_min, drawdown_max]; a record of signals_except_iv_strict has an
\* HV percentile of at least min_iv_percentile and below iv_filter_strict.
C19_BucketsDisjointAndBounded ==
    scan = "run_daily_scan" =>
        LET both == signals_pass_all \o signals_except_iv_strict
        IN  /\ \A i, j \in 1..Len(both) : both[i].symbol = both[j].symbol => i = j
            /\ \A i \in 1..Len(signals_pass_all) :
                  /\ AtLeast(signals_pass_all[i].iv_percentile, iv_filter_strict)
                  /\ AtLeast(signals_pass_all[i].drawdown_pct, drawdown_min)
                  /\ AtMost(signals_pass_all[i].drawdown_pct, drawdown_max)
            /\ \A i \in 1..Len(signals_except_iv_strict) :
                  /\ AtLeast(signals_except_iv_strict[i].iv_percentile,
                             min_iv_percentile)
                  /\ Below(signals_except_iv_strict[i].iv_percentile,
                           iv_filter_strict)
C19_OneRecordInEachBucket ==
    /\ scan = "run_daily_scan"
    /\ Len(signals_pass_all) = 1
    /\ Len(signals_except_iv_strict) = 1
    /\ signals_pass_all[1].iv_percentile = I(iv_filter_strict)
    /\ signals_except_iv_strict[1].iv_percentile = I(min_iv_percentile)

\* C16: request_with_retries returns a response whose status is in
\* allowed_statuses, or None.
C16_ReturnsAllowedStatusOrNone ==
    (pc = "returned" /\ r # None) => r.status \in allowed_statuses

NaturalKey(row) ==
    IF "gradingCompany" \in DOMAIN row
    THEN <<row.symbol, row.gradingCompany, row.date>>
    ELSE IF "last_5_close" \in DOMAIN row
    THEN <<row.symbol, row.last_5_close.newest>>
    ELSE <<row.Symbol, row.Latest_Date>>
KeysUnique(rows) ==
    \A a \in 1..Len(rows) : \A b \in 1..Len(rows) :
        a # b => NaturalKey(rows[a]) # NaturalKey(rows[b])
KeyPersisted(wb, name, rec) ==
    /\ HasSheet(wb, name)
    /\ \E k \in 1..Len(SheetRows(wb, Title(name, 0))) :
          NaturalKey(SheetRows(wb, Title(name, 0))[k]) = NaturalKey(rec)
Persisting == scan \in {"penny_losers_gainers", "send_updates"}
Handed == Persisting /\ outcome \in {"written", "raised"}

\* When a script has handed a frame to a sheet, the natural
\* key of each of its records is in that sheet.
NewKeyIsAdded ==
    Handed => \A k \in 1..Len(df) : KeyPersisted(workbook, locals.sheet_name, df[k])

\* C14: the persisted table is keyed by the natural key: no two rows of a
\* sheet share a natural key, and a record whose natural key is not yet in
\* the sheet is added.
C14_KeyedByNaturalKey ==
    /\ \A i \in 1..Len(workbook) : KeysUnique(workbook[i].rows)
    /\ NewKeyIsAdded

HasRow(wb, title, row) ==
    \E j \in 1..Len(wb) :
        /\ wb[j].title = title
        /\ \E m \in 1..Len(wb[j].rows) : wb[j].rows[m] = row

\* C15: persistence is append-only: a row of any sheet of the workbook is
\* still in that sheet after every later step of either script.
C15_AppendOnly ==
    [][ \A i \in 1..Len(workbook) : \A k \in 1..Len(workbook[i].rows) :
            HasRow(workbook', workbook[i].title, workbook[i].rows[k]) ]_vars

====
